---- MODULE Spec2Model ----
(***************************************************************************)
(* Task Master (maxbaydi/task-master-copilot): the task store tasks.json,  *)
(* the context log context.json and the commands that read and rewrite     *)
(* them.  One action is one command run to its end by a single process.    *)
(*                                                                         *)
(* Left out of the state: titles, descriptions, summaries and timestamps   *)
(* (free text the commands never branch on), the project name and version, *)
(* and the write-only file copilot-context.md.  A command is an operator   *)
(* from the two documents it finds to the two documents it leaves and its  *)
(* result ("ok", "fail" for a reported error, "throw" for an uncaught      *)
(* TypeError); the action of the command applies it.                       *)
(*                                                                         *)
(* Spec runs the commands from the directory `init` leaves, SpecInit from  *)
(* the directory before `init`, SpecStore from any well-formed tasks.json, *)
(* SpecWrite from the same with writes of tasks.json that may fail,        *)
(* SpecCreate the creation commands alone, with plans of up to             *)
(* MaxParagraphs paragraphs, and SpecTracker calls the functions that      *)
(* context-tracker.js exports, from a missing and from an unreadable       *)
(* context.json.  SpecRace runs two processes, each loading tasks.json     *)
(* and saving what it built from its own copy.                             *)
(***************************************************************************)
EXTENDS Integers, Sequences, FiniteSets, TLC

\* ---------------------------------------------------------------- bounds
MaxTasks == 2
MaxSubs == 2
MaxHist == 3
MaxParagraphs == 7

\* ---------------------------------------------------------------- state
VARIABLES
  tasksExists,  \* whether tasks/tasks.json exists
  tasksFile,    \* tasks.json: the sequence `tasks` of the document
                \* (the empty sequence while the file does not exist)
  contextFile,  \* context.json: [exists, readable, taskHistory, activeTask]
  proc,         \* per process: the command it runs and the tasksData it loaded
  writeOk       \* whether a write of tasks.json succeeds: [script] for the
                \* saveTasks of the scripts, [tracker] for the writeFileSync
                \* of context-tracker's updateTaskStatus

vars == <<tasksExists, tasksFile, contextFile, proc, writeOk>>

Null == 0       \* JavaScript null / undefined for a task id

Statuses == {"pending", "in-progress", "done", "deferred"}

\* saveTasks(tasksData): tasks.json after the call, on a file that held T.
\* The error of a failed write is caught and false is returned.
saveTasks(T, tasksData) == IF writeOk.script THEN tasksData ELSE T

NoTask == [id |-> Null, status |-> "none", priority |-> 0, subtasks |-> <<>>]

\* A subtask id is the string "<parentId>.<ordinal>", kept as the pair.
SubId(p, k) == <<p, k>>

\* ------------------------------------------------------- array helpers
\* Array.prototype.findIndex(t => t.id === id) + 1; 0 when nothing matches.
FindIndex(T, id) ==
  IF \E i \in 1..Len(T) : T[i].id = id
  THEN CHOOSE i \in 1..Len(T) : T[i].id = id /\ \A j \in 1..(i - 1) : T[j].id # id
  ELSE 0

\* Array.prototype.find(t => t.id === id); NoTask when nothing matches.
Find(T, id) == IF FindIndex(T, id) = 0 THEN NoTask ELSE T[FindIndex(T, id)]

\* Array.prototype.filter(task => task.status === status)
FilterStatus(T, status) == SelectSeq(T, LAMBDA t : t.status = status)

\* Array.prototype.sort(cmp), stable, where cmp(a, b) = key[a] - key[b]: the
\* positions 1..n of the array in sorted order (insertion from the left).
RECURSIVE InsertSorted(_, _, _)
InsertSorted(x, s, key) ==
  IF s = <<>> THEN <<x>>
  ELSE IF key[s[Len(s)]] - key[x] <= 0 THEN Append(s, x)
       ELSE Append(InsertSorted(x, SubSeq(s, 1, Len(s) - 1), key), s[Len(s)])

RECURSIVE SortedPositions(_, _)
SortedPositions(n, key) ==
  IF n = 0 THEN <<>>
  ELSE InsertSorted(n, SortedPositions(n - 1, key), key)

Sort(s, key) == [p \in 1..Len(s) |-> s[SortedPositions(Len(s), key)[p]]]

\* The length of the list plus one.
getNextTaskId_length(T) ==
  Len(T) + 1

\* getNextTaskId: 1 for an empty list, else Math.max(ids) + 1.
getNextTaskId(T) ==
  IF Len(T) = 0 THEN 1
  ELSE (CHOOSE m \in {T[i].id : i \in 1..Len(T)} :
          \A i \in 1..Len(T) : T[i].id <= m) + 1

\* ------------------------------------------------------ context-tracker
\* context.json as initContext writes it.
initialContext ==
  [exists |-> TRUE, readable |-> TRUE, taskHistory |-> <<>>, activeTask |-> Null]

\* No context.json in the tasks directory.
NoContextFile ==
  [exists |-> FALSE, readable |-> TRUE, taskHistory |-> <<>>, activeTask |-> Null]

\* A context.json that readFileSync or JSON.parse throws on.
Unreadable ==
  [exists |-> TRUE, readable |-> FALSE, taskHistory |-> <<>>, activeTask |-> Null]

\* loadContext returns null: the file is there and cannot be read.
contextUnavailable(C) == C.exists /\ ~C.readable

\* loadContext: a missing context.json is created by initContext on the way.
\* The value is the file after the call, which is also the object returned
\* unless contextUnavailable.
loadContext(C) == IF C.exists THEN C ELSE initialContext

\* activeTask cleared by every action but start.
addHistoryEntry_clearUnlessStart(T, C, taskId, action) ==
  IF contextUnavailable(C) THEN [context |-> C, ok |-> FALSE]
  ELSE IF FindIndex(T, taskId) = 0 THEN [context |-> loadContext(C), ok |-> FALSE]
  ELSE [context |->
          [loadContext(C) EXCEPT
             !.taskHistory = Append(@, [taskId |-> taskId, action |-> action]),
             !.activeTask = IF action = "start" THEN taskId ELSE Null],
        ok |-> TRUE]

\* The new entry put in front of the history.
addHistoryEntry_unshift(T, C, taskId, action) ==
  IF contextUnavailable(C) THEN [context |-> C, ok |-> FALSE]
  ELSE IF FindIndex(T, taskId) = 0 THEN [context |-> loadContext(C), ok |-> FALSE]
  ELSE [context |->
          [loadContext(C) EXCEPT
             !.taskHistory = <<[taskId |-> taskId, action |-> action]>> \o @,
             !.activeTask = IF action = "start" THEN taskId
                            ELSE IF action = "complete" THEN Null
                            ELSE @],
        ok |-> TRUE]

\* addHistoryEntry(taskId, action, summary): the context after the call and
\* the boolean it returns.
addHistoryEntry(T, C, taskId, action) ==
  LET context == loadContext(C) IN
  IF contextUnavailable(C) THEN [context |-> C, ok |-> FALSE]
  ELSE IF FindIndex(T, taskId) = 0
  THEN [context |-> context, ok |-> FALSE]
  ELSE [context |->
          [context EXCEPT
             !.taskHistory = Append(@, [taskId |-> taskId, action |-> action]),
             !.activeTask = IF action = "start" THEN taskId
                            ELSE IF action = "complete" THEN Null
                            ELSE @],
        ok |-> TRUE]

\* The history action updateTaskStatus derives from the old and new status.
historyAction(oldStatus, status) ==
  IF status = "in-progress" /\ oldStatus # "in-progress" THEN "start"
  ELSE IF status = "done" /\ oldStatus # "done" THEN "complete"
  ELSE "update"

\* No history entry when the status written is the status found.
updateTaskStatus_quietWhenUnchanged(T, C, taskId, status) ==
  LET taskIndex == FindIndex(T, taskId) IN
  IF taskIndex = 0 THEN [tasks |-> T, context |-> C, ok |-> FALSE]
  ELSE IF T[taskIndex].status = status THEN [tasks |-> T, context |-> C, ok |-> TRUE]
  ELSE [tasks |-> [T EXCEPT ![taskIndex].status = status],
        context |-> addHistoryEntry(T, C, taskId, historyAction(T[taskIndex].status, status)).context,
        ok |-> TRUE]

\* The history entry is appended whether or not tasks.json was written.
updateTaskStatus_ignoreWriteError(T, C, taskId, status) ==
  LET taskIndex == FindIndex(T, taskId) IN
  IF taskIndex = 0
  THEN [tasks |-> T, context |-> C, ok |-> FALSE]
  ELSE LET oldStatus == T[taskIndex].status
           tasks == [T EXCEPT ![taskIndex].status = status]
           r == addHistoryEntry(tasks, C, taskId, historyAction(oldStatus, status))
       IN [tasks |-> IF writeOk.tracker THEN tasks ELSE T,
           context |-> r.context, ok |-> r.ok]

\* updateTaskStatus(taskId, status, summary): rereads tasks.json, rewrites it
\* with the new status and appends the history entry; a failed write is
\* caught and false returned before the entry.
updateTaskStatus(T, C, taskId, status) ==
  LET taskIndex == FindIndex(T, taskId) IN
  IF taskIndex = 0
  THEN [tasks |-> T, context |-> C, ok |-> FALSE]
  ELSE IF ~writeOk.tracker
  THEN [tasks |-> T, context |-> C, ok |-> FALSE]
  ELSE LET oldStatus == T[taskIndex].status
           tasks == [T EXCEPT ![taskIndex].status = status]
           r == addHistoryEntry(tasks, C, taskId, historyAction(oldStatus, status))
       IN [tasks |-> tasks, context |-> r.context, ok |-> r.ok]

\* The sort key of `(a, b) => a.priority - b.priority`.
byPriority(s) == [p \in 1..Len(s) |-> s[p].priority]

\* context-tracker getNextTask: pending tasks sorted by priority, the first.
tracker_getNextTask(T) ==
  LET pending == FilterStatus(T, "pending")
      pendingTasks == Sort(pending, byPriority(pending))
  IN
  IF Len(T) = 0 \/ Len(pendingTasks) = 0 THEN NoTask ELSE pendingTasks[1]

\* The whole history, whatever the task.
getTaskHistory_unfiltered(C, taskId) ==
  [context |-> loadContext(C),
   ok |-> ~contextUnavailable(C),
   history |-> loadContext(C).taskHistory]

\* getTaskHistory(taskId): the entries of one task, in order (ok = FALSE
\* for the null it returns without a context), and the file after the call.
getTaskHistory(C, taskId) ==
  [context |-> loadContext(C),
   ok |-> ~contextUnavailable(C),
   history |-> SelectSeq(loadContext(C).taskHistory, LAMBDA e : e.taskId = taskId)]

\* getAllHistory(): the whole history, and the file after the call.
getAllHistory(C) ==
  [context |-> loadContext(C),
   ok |-> ~contextUnavailable(C),
   history |-> loadContext(C).taskHistory]

\* getFormattedTaskHistory(taskId): the file after the call; the history is
\* read only for a task of the store.
getFormattedTaskHistory(T, C, taskId) ==
  IF FindIndex(T, taskId) = 0 THEN C ELSE getTaskHistory(C, taskId).context

\* getProjectSummary(): the counts it reports, and the file after the call.
getProjectSummary(T, C) ==
  [context |-> loadContext(C),
   ok |-> ~contextUnavailable(C),
   total |-> Len(T),
   completed |-> Len(FilterStatus(T, "done")),
   inProgress |-> Len(FilterStatus(T, "in-progress")),
   pending |-> Len(FilterStatus(T, "pending")),
   activeTask |-> loadContext(C).activeTask]

\* prepareTaskContextForCopilot(taskId): the context file after the call (it
\* reads the history through loadContext when the task exists).
prepareTaskContextForCopilot(T, C, taskId) ==
  IF FindIndex(T, taskId) = 0 THEN C ELSE loadContext(C)

\* updateContextAfterTaskCompletion(taskId, summary): clears activeTask,
\* saves, then looks up the next task and prepares its Copilot context.
updateContextAfterTaskCompletion(T, C) ==
  LET context == [loadContext(C) EXCEPT !.activeTask = Null]
      nextTask == tracker_getNextTask(T)
  IN IF contextUnavailable(C) THEN [context |-> C, nextTask |-> NoTask]
     ELSE [context |-> context, nextTask |-> nextTask]

\* ------------------------------------------------------------ the store
\* parentTask.subtasks.every(st => st.status === 'done')
allSubtasksDone(subtasks) ==
  \A k \in 1..Len(subtasks) : subtasks[k].status = "done"

\* task.subtasks.forEach(st => { st.status = 'done' })
forceSubtasksDone(subtasks) ==
  [k \in 1..Len(subtasks) |-> [subtasks[k] EXCEPT !.status = "done"]]

\* The last subtask stands in for one that is not found.
FindSubtask_orLast(subtasks, sid) ==
  IF \E k \in 1..Len(subtasks) : subtasks[k].id = sid
  THEN CHOOSE k \in 1..Len(subtasks) : subtasks[k].id = sid
  ELSE Len(subtasks)

\* parentTask.subtasks.find(st => st.id === taskId), as an index; 0 if none.
FindSubtask(subtasks, sid) ==
  IF \E k \in 1..Len(subtasks) : subtasks[k].id = sid
  THEN CHOOSE k \in 1..Len(subtasks) :
         subtasks[k].id = sid /\ \A j \in 1..(k - 1) : subtasks[j].id # sid
  ELSE 0

\* The rollup test made on the subtasks as they were before the mark.
markSubtaskDone_checkedBefore(T, i, k) ==
  [T EXCEPT ![i].subtasks = [@ EXCEPT ![k].status = "done"],
            ![i].status = IF allSubtasksDone(T[i].subtasks) THEN "done" ELSE @]

\* The parent follows as soon as some subtask is done.
markSubtaskDone_some(T, i, k) ==
  [T EXCEPT ![i].subtasks = [@ EXCEPT ![k].status = "done"], ![i].status = "done"]

\* The subtask branch shared by every complete script: the subtask is set to
\* done and the parent follows when every subtask is done.
markSubtaskDone(T, i, k) ==
  LET subtasks == [T[i].subtasks EXCEPT ![k].status = "done"] IN
  [T EXCEPT ![i].subtasks = subtasks,
            ![i].status = IF allSubtasksDone(subtasks) THEN "done" ELSE @]

\* The task marked done with its subtasks left as they are.
markTaskDone_statusOnly(T, i) ==
  [T EXCEPT ![i].status = "done"]

\* The task branch shared by every complete script.
markTaskDone(T, i) ==
  [T EXCEPT ![i].status = "done", ![i].subtasks = forceSubtasksDone(@)]

\* What a command leaves behind and how it ended.
Outcome(T, C, result) == [tasks |-> T, context |-> C, result |-> result]

\* The history a command leaves stays within the bound of the model.
HistFits(C) == Len(C.taskHistory) <= MaxHist

\* The processes of the model and a process that runs nothing.
Procs == {1, 2}

Idle ==
  [pc |-> "idle", command |-> "none", taskId |-> Null, tasksData |-> <<>>,
   result |-> "none", newId |-> Null]

\* A command run alone from its loadTasks to its end.  Every script but
\* init loads tasks.json first and exits when the file is missing; none
\* removes it.
Loaded ==
  /\ tasksExists
  /\ UNCHANGED <<tasksExists, proc, writeOk>>

\* The arguments the commands are run with: every id a store of MaxTasks
\* tasks can hold and one that names nothing; 0 as the subtask ordinal is an
\* id without a dot.
TaskIdArgs == 1..(MaxTasks + 1)
SubArgs == 0..(MaxSubs + 1)

\* ------------------------------------------------------------- creation
\* chat "создай задачу <title>"
createTaskFromChat(T) ==
  Append(T, [id |-> getNextTaskId(T), status |-> "pending",
             priority |-> 2, subtasks |-> <<>>])

CreateTaskFromChat ==
  /\ Loaded
  /\ Len(tasksFile) < MaxTasks
  /\ tasksFile' = saveTasks(tasksFile, createTaskFromChat(tasksFile))
  /\ UNCHANGED contextFile

\* The priority answered at the prompt: parseInt(answer) || 2, clamped to
\* 1..3.  0 stands for every answer parseInt turns into NaN or 0.
PriorityAnswers == {-1, 0, 1, 2, 3, 4}

\* The answer bounded from below only.
clampPriority_noCeiling(answer) ==
  LET priorityValue == IF answer = 0 THEN 2 ELSE answer IN
  IF priorityValue > 1 THEN priorityValue ELSE 1

clampPriority(answer) ==
  LET priorityValue == IF answer = 0 THEN 2 ELSE answer
      atLeast1 == IF priorityValue > 1 THEN priorityValue ELSE 1
  IN IF atLeast1 < 3 THEN atLeast1 ELSE 3

\* generateTaskFromDescription: a title line and n subtask lines.
generateTaskFromDescription(T, n) ==
  [id |-> getNextTaskId(T), status |-> "pending", priority |-> 2,
   subtasks |-> [k \in 1..n |->
                   [id |-> SubId(getNextTaskId(T), k), status |-> "pending"]]]

\* generate, one task: the description, then the priority prompt.
generateTasks(T, n, answer) ==
  Append(T, [generateTaskFromDescription(T, n) EXCEPT
               !.priority = clampPriority(answer)])

GenerateTasks ==
  /\ Loaded
  /\ \E n \in 0..MaxSubs, answer \in PriorityAnswers :
       /\ Len(tasksFile) < MaxTasks
       /\ tasksFile' = saveTasks(tasksFile, generateTasks(tasksFile, n, answer))
       /\ UNCHANGED contextFile

\* chat "создай задачи <d1> ### <d2> ...": one task per description, each
\* with its own subtask lines and priority tag, each pushed before the next
\* id is computed.  A description is [subs |-> n, tag |-> the digit of its
\* [P:digit] tag], NoTag without a tag.
NoTag == -1
PriorityTags == {NoTag} \cup 0..4
Descriptions == [subs : 0..MaxSubs, tag : PriorityTags]

\* priorityRegex takes one digit of 1 to 3; any other tag does not match
\* and the default 2 stays.
tagPriority(tag) ==
  IF tag \in 1..3 THEN tag ELSE 2

RECURSIVE generateMultipleTasks(_, _)
generateMultipleTasks(T, descs) ==
  IF descs = <<>> THEN T
  ELSE LET taskId == getNextTaskId(T)
           newTask == [id |-> taskId, status |-> "pending",
                       priority |-> tagPriority(Head(descs).tag),
                       subtasks |-> [k \in 1..Head(descs).subs |->
                                       [id |-> SubId(taskId, k), status |-> "pending"]]]
       IN generateMultipleTasks(Append(T, newTask), Tail(descs))

GenerateMultipleTasks ==
  /\ Loaded
  /\ \E n \in 1..MaxTasks :
       /\ Len(tasksFile) + n <= MaxTasks
       /\ \E descs \in [1..n -> Descriptions] :
            /\ tasksFile' = saveTasks(tasksFile, generateMultipleTasks(tasksFile, descs))
            /\ UNCHANGED contextFile

\* generate --batch: processBatchTasks.  One task per description, each
\* pushed before the next id is computed; then the one priority answered at
\* the prompt is set on every task created.
RECURSIVE processBatchTasks(_, _, _)
processBatchTasks(T, subs, answer) ==
  IF subs = <<>> THEN T
  ELSE LET taskId == getNextTaskId(T)
           newTask == [id |-> taskId, status |-> "pending",
                       priority |-> clampPriority(answer),
                       subtasks |-> [k \in 1..Head(subs) |->
                                       [id |-> SubId(taskId, k), status |-> "pending"]]]
       IN processBatchTasks(Append(T, newTask), Tail(subs), answer)

ProcessBatchTasks ==
  /\ Loaded
  /\ \E n \in 1..MaxTasks :
       /\ Len(tasksFile) + n <= MaxTasks
       /\ \E subs \in [1..n -> 0..MaxSubs], answer \in PriorityAnswers :
            /\ tasksFile' = saveTasks(tasksFile, processBatchTasks(tasksFile, subs, answer))
            /\ UNCHANGED contextFile

\* chat "создай список задач из плана: ...": n plan lines.  With bullets
\* every line opens a task (the lines are trimmed before their indent is
\* measured, so none is a subtask) and every task takes
\* getNextTaskId(tasksData.tasks) of the list as it was loaded; without
\* bullets line number index takes that id plus index.
generateTasksFromPlan(T, n, hasBulletPoints) ==
  T \o [index \in 1..n |->
         [id |-> IF hasBulletPoints THEN getNextTaskId(T)
                 ELSE getNextTaskId(T) + (index - 1),
          status |-> "pending", priority |-> 2, subtasks |-> <<>>]]

GenerateTasksFromPlan ==
  /\ Loaded
  /\ \E n \in 1..MaxTasks, hasBulletPoints \in BOOLEAN :
       /\ Len(tasksFile) + n <= MaxTasks
       /\ tasksFile' = saveTasks(tasksFile, generateTasksFromPlan(tasksFile, n, hasBulletPoints))
       /\ UNCHANGED contextFile

\* The later generateTasksFromPlan of chat.js, of the script that keeps no
\* context: one task per paragraph of the text after the command, pushed
\* before the next id is computed.  Paragraph i (from 0) takes priority
\* ceil((i + 1) / 3) bounded to 1..3, unless a keyword of low priority (3)
\* or of high priority (1) stands in it.
PlanKeywords == {"none", "low", "high"}

planPriority(i, keyword) ==
  LET byPosition == ((i + 1) + 2) \div 3
      atLeast1 == IF byPosition > 1 THEN byPosition ELSE 1
      priority == IF atLeast1 < 3 THEN atLeast1 ELSE 3
  IN IF keyword = "low" THEN 3
     ELSE IF keyword = "high" THEN 1
     ELSE priority

\* defaultTasks: the seven tasks of a standard project, four subtasks each.
defaultTasks == <<1, 1, 1, 2, 2, 3, 2>>

RECURSIVE pushDefaultTasks(_, _)
pushDefaultTasks(T, priorities) ==
  IF priorities = <<>> THEN T
  ELSE LET taskId == getNextTaskId(T)
           newTask == [id |-> taskId, status |-> "pending",
                       priority |-> Head(priorities),
                       subtasks |-> [k \in 1..4 |->
                                       [id |-> SubId(taskId, k), status |-> "pending"]]]
       IN pushDefaultTasks(Append(T, newTask), Tail(priorities))

RECURSIVE pushParagraphs(_, _, _)
pushParagraphs(T, paragraphs, i) ==
  IF i >= Len(paragraphs) THEN T
  ELSE LET taskId == getNextTaskId(T)
           newTask == [id |-> taskId, status |-> "pending",
                       priority |-> planPriority(i, paragraphs[i + 1].keyword),
                       subtasks |-> [k \in 1..paragraphs[i + 1].subs |->
                                       [id |-> SubId(taskId, k), status |-> "pending"]]]
       IN pushParagraphs(Append(T, newTask), paragraphs, i + 1)

chat2_generateTasksFromPlan(T, paragraphs) ==
  IF paragraphs = <<>> THEN pushDefaultTasks(T, defaultTasks)
  ELSE pushParagraphs(T, paragraphs, 0)

\* chat "создай список задач из плана ..." with n paragraphs of at most
\* maxSubs subtask lines, on a store with room for them.
ChatGenerateTasksFromPlan(limit, maxSubs) ==
  /\ Loaded
  /\ \E n \in 0..limit :
       /\ Len(tasksFile) + (IF n = 0 THEN Len(defaultTasks) ELSE n) <= limit
       /\ \E paragraphs \in [1..n -> [keyword : PlanKeywords, subs : 0..maxSubs]] :
            /\ tasksFile' = saveTasks(tasksFile, chat2_generateTasksFromPlan(tasksFile, paragraphs))
            /\ UNCHANGED contextFile

\* ------------------------------------------------- complete (with context)
\* The tail of completeTaskWithContextUpdate once the store was saved:
\* updateContextAfterTaskCompletion and the next task it reports.
afterCompletion(T, C) ==
  LET a == updateContextAfterTaskCompletion(T, C) IN
  [tasks |-> T,
   context |-> IF a.nextTask = NoTask THEN a.context
               ELSE prepareTaskContextForCopilot(T, a.context, a.nextTask.id),
   result |-> "ok", nextTask |-> a.nextTask]

\* completeTaskWithContextUpdate(taskId, summary).
completeTaskWithContextUpdate(T, C, id, sub) ==
  LET i == FindIndex(T, id)
      notFound == [tasks |-> T, context |-> C, result |-> "fail", nextTask |-> NoTask]
      notSaved == [tasks |-> T, context |-> C, result |-> "fail", nextTask |-> NoTask]
  IN
  IF sub # 0
  THEN IF i = 0 THEN notFound
       ELSE LET k == FindSubtask(T[i].subtasks, SubId(id, sub)) IN
         IF k = 0 THEN notFound
         ELSE IF ~writeOk.script THEN notSaved
         ELSE LET saved == markSubtaskDone(T, i, k)
                  h == addHistoryEntry(saved, C, id, "update")
                  u == IF allSubtasksDone(saved[i].subtasks)
                       THEN updateTaskStatus(saved, h.context, id, "done")
                       ELSE [tasks |-> saved, context |-> h.context, ok |-> TRUE]
              IN afterCompletion(u.tasks, u.context)
  ELSE IF i = 0 THEN notFound
       ELSE IF ~writeOk.script THEN notSaved
       ELSE LET saved == markTaskDone(T, i)
                u == updateTaskStatus(saved, C, id, "done")
            IN afterCompletion(u.tasks, u.context)

\* CLI: complete <id> | complete <id>.<n>
CompleteTaskWithContextUpdate ==
  /\ Loaded
  /\ \E id \in TaskIdArgs, sub \in SubArgs :
       LET r == completeTaskWithContextUpdate(tasksFile, contextFile, id, sub) IN
       /\ HistFits(r.context)
       /\ tasksFile' = r.tasks
       /\ contextFile' = r.context

\* A task object written back at its index with status 'in-progress'.
markInProgress(T, task) ==
  [T EXCEPT ![FindIndex(T, task.id)] = [task EXCEPT !.status = "in-progress"]]

\* tasks[taskIndex].status = 'in-progress' at the first index holding the id.
markInProgressAt(T, id) ==
  [T EXCEPT ![FindIndex(T, id)].status = "in-progress"]

\* completeTaskInteractive: after the completion the user is asked whether
\* to start the next task; on yes it is written back as in-progress.
\* The result of that saveTasks is not looked at.
completeTaskInteractive(T, C, id, sub, yes) ==
  LET r == completeTaskWithContextUpdate(T, C, id, sub) IN
  IF r.result = "ok" /\ r.nextTask # NoTask /\ yes
  THEN LET u == updateTaskStatus(saveTasks(r.tasks, markInProgress(r.tasks, r.nextTask)),
                                 r.context, r.nextTask.id, "in-progress")
       IN Outcome(u.tasks, u.context, "ok")
  ELSE Outcome(r.tasks, r.context, r.result)

\* CLI: complete <id> --interactive
CompleteTaskInteractive ==
  /\ Loaded
  /\ \E id \in TaskIdArgs, sub \in SubArgs, yes \in BOOLEAN :
       LET r == completeTaskInteractive(tasksFile, contextFile, id, sub, yes) IN
       /\ HistFits(r.context)
       /\ tasksFile' = r.tasks
       /\ contextFile' = r.context

\* startTaskExecution(taskId); id = Null is the call without an id.
startTaskExecution(T, C, id) ==
  LET task == IF id # Null THEN Find(T, id) ELSE tracker_getNextTask(T) IN
  IF task = NoTask THEN Outcome(T, C, "fail")
  ELSE IF ~writeOk.script THEN Outcome(T, C, "fail")
  ELSE LET u == updateTaskStatus(markInProgress(T, task), C, task.id, "in-progress")
       IN Outcome(u.tasks, prepareTaskContextForCopilot(u.tasks, u.context, task.id), "ok")

\* CLI: complete start [id]
StartTaskExecution ==
  /\ Loaded
  /\ \E id \in {Null} \cup TaskIdArgs :
       LET r == startTaskExecution(tasksFile, contextFile, id) IN
       /\ HistFits(r.context)
       /\ tasksFile' = r.tasks
       /\ contextFile' = r.context

\* ------------------------------------------------- complete (plain script)
\* completeTask() of the complete script that keeps no context.
completeTask(T, C, id, sub) ==
  LET i == FindIndex(T, id) IN
  IF i = 0 THEN Outcome(T, C, "fail")
  ELSE IF sub = 0
  THEN Outcome(saveTasks(T, markTaskDone(T, i)), C,
               IF writeOk.script THEN "ok" ELSE "fail")
  ELSE LET k == FindSubtask(T[i].subtasks, SubId(id, sub)) IN
       IF k = 0 THEN Outcome(T, C, "fail")
       ELSE Outcome(saveTasks(T, markSubtaskDone(T, i, k)), C,
                    IF writeOk.script THEN "ok" ELSE "fail")

CompleteTask ==
  /\ Loaded
  /\ \E id \in TaskIdArgs, sub \in SubArgs :
       LET r == completeTask(tasksFile, contextFile, id, sub) IN
       /\ HistFits(r.context)
       /\ tasksFile' = r.tasks
       /\ contextFile' = r.context

\* --------------------------------------------------------- next (context)
\* priorityOrder = {high: 1, medium: 2, low: 3} is indexed with the numeric
\* priority, so both operands are undefined, the comparator returns NaN and
\* Array.prototype.sort takes NaN as +0: every pair compares equal.
byPriorityOrder(s) == [p \in 1..Len(s) |-> 0]

\* next getNextTask: pending tasks sorted with priorityOrder, the first.
next_getNextTask(T) ==
  LET pending == FilterStatus(T, "pending")
      pendingTasks == Sort(pending, byPriorityOrder(pending))
  IN IF Len(pendingTasks) > 0 THEN pendingTasks[1] ELSE NoTask

\* No task is ever reported as current.
getCurrentTask_none(T) ==
  NoTask

\* getCurrentTask: the first task with status in-progress.
getCurrentTask(T) ==
  LET activeTasks == FilterStatus(T, "in-progress") IN
  IF Len(activeTasks) > 0 THEN activeTasks[1] ELSE NoTask

\* tasks.find(t => t.id === taskId && t.status === 'pending'): the index of
\* the first such task, 0 when there is none.
FindPendingIndex(T, id) ==
  IF \E i \in 1..Len(T) : T[i].id = id /\ T[i].status = "pending"
  THEN CHOOSE i \in 1..Len(T) :
         /\ T[i].id = id /\ T[i].status = "pending"
         /\ \A j \in 1..(i - 1) : ~(T[j].id = id /\ T[j].status = "pending")
  ELSE 0

FindPending(T, id) ==
  IF FindPendingIndex(T, id) = 0 THEN NoTask ELSE T[FindPendingIndex(T, id)]

\* The task found in the loaded array is changed in place and then also
\* stored at the first index that holds its id (the same index unless two
\* tasks share the id).
markInProgressFound(T, j) ==
  [T EXCEPT ![j].status = "in-progress",
            ![FindIndex(T, T[j].id)] = [T[j] EXCEPT !.status = "in-progress"]]

\* startNextTask(auto, targetTaskId), called with auto = !targetTaskId.
startNextTask(T, C, id) ==
  LET task == IF id = Null THEN next_getNextTask(T) ELSE FindPending(T, id)
      currentTask == getCurrentTask(T)
  IN
  IF task = NoTask THEN Outcome(T, C, "fail")
  ELSE IF currentTask # NoTask THEN Outcome(T, C, "fail")
  ELSE IF ~writeOk.script THEN Outcome(T, C, "fail")
  ELSE LET saved == IF id = Null THEN markInProgress(T, task)
                    ELSE markInProgressFound(T, FindPendingIndex(T, id))
           u == updateTaskStatus(saved, C, task.id, "in-progress")
       IN Outcome(u.tasks, prepareTaskContextForCopilot(u.tasks, u.context, task.id), "ok")

\* CLI: next start [id]
StartNextTask ==
  /\ Loaded
  /\ \E id \in {Null} \cup TaskIdArgs :
       LET r == startNextTask(tasksFile, contextFile, id) IN
       /\ HistFits(r.context)
       /\ tasksFile' = r.tasks
       /\ contextFile' = r.context

\* ------------------------------------------------------ next (plain script)
\* getNextTask() of the next script that keeps no context: it marks the
\* task it shows as in-progress.
nextjs_getNextTask(T, C) ==
  LET pending == FilterStatus(T, "pending")
      pendingTasks == Sort(pending, byPriority(pending))
  IN
  IF Len(T) = 0 \/ Len(pendingTasks) = 0 THEN Outcome(T, C, "fail")
  ELSE Outcome(saveTasks(T, markInProgressAt(T, pendingTasks[1].id)), C, "ok")

NextjsGetNextTask ==
  /\ Loaded
  /\ LET r == nextjs_getNextTask(tasksFile, contextFile) IN
     /\ HistFits(r.context)
     /\ tasksFile' = r.tasks
     /\ contextFile' = r.context

\* ------------------------------------------------------------------ chat
\* chat "отметь задачу <id> как выполненную".  The subtask branch calls
\* contextTracker.updateTaskHistory, which the module does not export: the
\* call throws after tasks.json was saved.
chat_completeTask(T, C, id, sub) ==
  LET i == FindIndex(T, id) IN
  IF i = 0 THEN Outcome(T, C, "fail")
  ELSE IF sub = 0
  THEN IF ~writeOk.script THEN Outcome(T, C, "fail")
       ELSE LET u == updateTaskStatus(markTaskDone(T, i), C, id, "done")
            IN Outcome(u.tasks, u.context, "ok")
  ELSE LET k == FindSubtask(T[i].subtasks, SubId(id, sub)) IN
       IF k = 0 THEN Outcome(T, C, "fail")
       ELSE IF ~writeOk.script THEN Outcome(T, C, "fail")
       ELSE Outcome(markSubtaskDone(T, i, k), C, "throw")

ChatCompleteTask ==
  /\ Loaded
  /\ \E id \in TaskIdArgs, sub \in SubArgs :
       LET r == chat_completeTask(tasksFile, contextFile, id, sub) IN
       /\ HistFits(r.context)
       /\ tasksFile' = r.tasks
       /\ contextFile' = r.context

\* chat "дай следующую задачу"; the result of its saveTasks is not looked at.
chat_getNextTask(T, C) ==
  LET pending == FilterStatus(T, "pending")
      pendingTasks == Sort(pending, byPriority(pending))
  IN
  IF Len(T) = 0 \/ Len(pendingTasks) = 0 THEN Outcome(T, C, "fail")
  ELSE LET nextTask == pendingTasks[1]
           u == updateTaskStatus(saveTasks(T, markInProgressAt(T, nextTask.id)), C,
                                 nextTask.id, "in-progress")
       IN Outcome(u.tasks, u.context, "ok")

ChatGetNextTask ==
  /\ Loaded
  /\ LET r == chat_getNextTask(tasksFile, contextFile) IN
     /\ HistFits(r.context)
     /\ tasksFile' = r.tasks
     /\ contextFile' = r.context

\* chat "продолжить": continueCopilotIteration, the later (async) of the two
\* declarations.  With a task in-progress it calls complete.completeTask,
\* which complete.js does not export: the TypeError is caught and reported
\* and nothing was written.  With none it is startNextTask(true).
chat_continueCopilotIteration(T, C) ==
  LET currentTask == getCurrentTask(T) IN
  IF currentTask # NoTask THEN Outcome(T, C, "fail")
  ELSE startNextTask(T, C, Null)

ChatContinue ==
  /\ Loaded
  /\ LET r == chat_continueCopilotIteration(tasksFile, contextFile) IN
     /\ HistFits(r.context)
     /\ tasksFile' = r.tasks
     /\ contextFile' = r.context


\* chat.js:792-815 updateTaskContext ("обнови контекст задачи N"), the later
\* of the script's two declarations of that name: an update entry for an
\* existing task. chat.js:338-348 updateCurrentContext (no id in the command)
\* does the same for the active task, and fails when there is none.
chat_updateTaskContext(T, C, id) ==
  LET taskId == IF id = Null THEN loadContext(C).activeTask ELSE id IN
  IF id = Null /\ taskId = Null THEN Outcome(T, loadContext(C), "fail")
  ELSE IF FindIndex(T, taskId) = 0 THEN Outcome(T, IF id = Null THEN loadContext(C) ELSE C, "fail")
  ELSE LET h == addHistoryEntry(T, C, taskId, "update")
       IN Outcome(T, prepareTaskContextForCopilot(T, h.context, taskId), "ok")

ChatUpdateTaskContext ==
  /\ Loaded
  /\ \E id \in {Null} \cup TaskIdArgs :
       LET r == chat_updateTaskContext(tasksFile, contextFile, id) IN
       /\ HistFits(r.context)
       /\ tasksFile' = r.tasks
       /\ contextFile' = r.context

\* --------------------------------------------------------------- context
\* CLI: context update <id> <text>.  Without a text it returns at once; with
\* one it calls contextTracker.loadTasks, which the module does not export:
\* the call throws before anything is read or written.
context_updateTaskContext(T, C, id, summary) ==
  IF ~summary THEN Outcome(T, C, "fail") ELSE Outcome(T, C, "throw")

ContextUpdateTaskContext ==
  /\ Loaded
  /\ \E id \in TaskIdArgs, summary \in BOOLEAN :
       LET r == context_updateTaskContext(tasksFile, contextFile, id, summary) IN
       /\ HistFits(r.context)
       /\ tasksFile' = r.tasks
       /\ contextFile' = r.context

\* CLI: context complete <id> <text>
context_completeTask(T, C, id, summary) ==
  IF ~summary THEN Outcome(T, C, "fail")
  ELSE LET u == updateTaskStatus(T, C, id, "done")
       IN Outcome(u.tasks, u.context, IF u.ok THEN "ok" ELSE "fail")

ContextCompleteTask ==
  /\ Loaded
  /\ \E id \in TaskIdArgs, summary \in BOOLEAN :
       LET r == context_completeTask(tasksFile, contextFile, id, summary) IN
       /\ HistFits(r.context)
       /\ tasksFile' = r.tasks
       /\ contextFile' = r.context

\* ------------------------------------------------------- context (reads)
\* CLI: context summary
ContextSummary ==
  /\ Loaded
  /\ contextFile' = getProjectSummary(tasksFile, contextFile).context
  /\ UNCHANGED tasksFile

\* CLI: context history [id]
ContextHistory ==
  /\ Loaded
  /\ \E id \in {Null} \cup TaskIdArgs :
       /\ contextFile' = IF id = Null THEN getAllHistory(contextFile).context
                         ELSE getFormattedTaskHistory(tasksFile, contextFile, id)
       /\ UNCHANGED tasksFile

\* CLI: context init
ContextInit ==
  /\ Loaded
  /\ contextFile' = loadContext(contextFile)
  /\ UNCHANGED tasksFile

\* ------------------------------------------------------------------ init
\* The template is written over whatever is there.
createTasksFile_overwrite(exists, T) ==
  [exists |-> TRUE, tasks |-> <<>>]

\* createTasksFile: the template { tasks: [] } is written only when
\* tasks.json does not exist.
createTasksFile(exists, T) ==
  IF ~exists THEN [exists |-> TRUE, tasks |-> <<>>]
  ELSE [exists |-> exists, tasks |-> T]

\* CLI: init (createTasksDir, createTasksFile); context.json is not touched.
Initialize ==
  /\ tasksExists' = createTasksFile(tasksExists, tasksFile).exists
  /\ tasksFile' = createTasksFile(tasksExists, tasksFile).tasks
  /\ UNCHANGED <<contextFile, proc, writeOk>>

\* ------------------------------------------------------------------ spec
\* The project directory after `init`: tasks.json with no task, no context.json.
Init ==
  /\ tasksExists = TRUE
  /\ proc = [p \in Procs |-> Idle]
  /\ writeOk = [script |-> TRUE, tracker |-> TRUE]
  /\ tasksFile = <<>>
  /\ contextFile = NoContextFile

\* A directory that was never initialised: no tasks folder, no file.
EmptyDirectory ==
  /\ tasksExists = FALSE
  /\ proc = [p \in Procs |-> Idle]
  /\ writeOk = [script |-> TRUE, tracker |-> TRUE]
  /\ tasksFile = <<>>
  /\ contextFile = NoContextFile

Create ==
  \/ CreateTaskFromChat
  \/ GenerateTasks
  \/ GenerateMultipleTasks
  \/ ProcessBatchTasks
  \/ GenerateTasksFromPlan
  \/ ChatGenerateTasksFromPlan(MaxTasks, MaxSubs)

Commands ==
  \/ CompleteTaskWithContextUpdate
  \/ CompleteTaskInteractive
  \/ StartTaskExecution
  \/ CompleteTask
  \/ StartNextTask
  \/ NextjsGetNextTask
  \/ ChatCompleteTask
  \/ ChatGetNextTask
  \/ ChatContinue
  \/ ChatUpdateTaskContext
  \/ ContextUpdateTaskContext
  \/ ContextCompleteTask
  \/ ContextSummary
  \/ ContextHistory
  \/ ContextInit

Next ==
  \/ Initialize
  \/ Create
  \/ Commands

Spec == Init /\ [][Next]_vars

\* The same commands from a directory before its first init.
SpecInit == EmptyDirectory /\ [][Next]_vars

\* The creation commands alone, with room for a plan of MaxParagraphs
\* paragraphs: the later ones take their priority from their position.
CreateNext ==
  \/ Create
  \/ ChatGenerateTasksFromPlan(MaxParagraphs, 0)

SpecCreate == Init /\ [][CreateNext]_vars

\* Any tasks.json of the documented format within the bounds, ids 1..n, with
\* no context.json yet: the input of a command run on an existing project.
SubtaskLists ==
  UNION {[1..n -> {"pending", "done"}] : n \in 0..MaxSubs}

TaskOf(id, status, priority, subs) ==
  [id |-> id, status |-> status, priority |-> priority,
   subtasks |-> [k \in 1..Len(subs) |-> [id |-> SubId(id, k), status |-> subs[k]]]]

Stores ==
  UNION {{[i \in 1..n |-> TaskOf(i, st[i], pr[i], su[i])] :
            st \in [1..n -> Statuses], pr \in [1..n -> 1..3],
            su \in [1..n -> SubtaskLists]} : n \in 0..MaxTasks}

StoreInit ==
  /\ tasksExists = TRUE
  /\ proc = [p \in Procs |-> Idle]
  /\ writeOk = [script |-> TRUE, tracker |-> TRUE]
  /\ tasksFile \in Stores
  /\ contextFile = NoContextFile

\* One command with a history on a store that has none yet, and any number
\* of commands that keep none.
StoreNext ==
  /\ contextFile.taskHistory = <<>>
  /\ Commands

SpecStore == StoreInit /\ [][StoreNext]_vars

\* The same, on a tasks.json that the scripts, the tracker, both or neither
\* can write while the command runs.
WriteInit ==
  /\ tasksExists = TRUE
  /\ proc = [p \in Procs |-> Idle]
  /\ writeOk \in [script : BOOLEAN, tracker : BOOLEAN]
  /\ tasksFile \in Stores
  /\ contextFile = NoContextFile

SpecWrite == WriteInit /\ [][StoreNext]_vars


\* The functions context-tracker exports, called directly on a small store
\* with a context.json that is missing or unreadable at first.
TrackerStores ==
  UNION {{[i \in 1..n |-> TaskOf(i, st[i], 2, <<>>)] : st \in [1..n -> Statuses]} :
           n \in 0..MaxTasks}

HistoryActions == {"start", "complete", "update"}

TrackerInit ==
  /\ tasksExists = TRUE
  /\ proc = [p \in Procs |-> Idle]
  /\ writeOk = [script |-> TRUE, tracker |-> TRUE]
  /\ tasksFile \in TrackerStores
  /\ contextFile \in {NoContextFile, Unreadable}

AddHistoryEntry ==
  /\ Loaded
  /\ \E taskId \in TaskIdArgs, action \in HistoryActions :
       LET r == addHistoryEntry(tasksFile, contextFile, taskId, action) IN
       /\ HistFits(r.context)
       /\ contextFile' = r.context
       /\ UNCHANGED tasksFile

UpdateTaskStatus ==
  /\ Loaded
  /\ \E taskId \in TaskIdArgs, status \in Statuses :
       LET r == updateTaskStatus(tasksFile, contextFile, taskId, status) IN
       /\ HistFits(r.context)
       /\ tasksFile' = r.tasks
       /\ contextFile' = r.context

GetTaskHistory ==
  /\ Loaded
  /\ \E taskId \in TaskIdArgs :
       /\ contextFile' = getTaskHistory(contextFile, taskId).context
       /\ UNCHANGED tasksFile

TrackerNext ==
  \/ AddHistoryEntry
  \/ UpdateTaskStatus
  \/ GetTaskHistory
  \/ ContextSummary
  \/ ContextInit

SpecTracker == TrackerInit /\ [][TrackerNext]_vars

\* ------------------------------------------------------ two processes
\* Two terminals, one command each.  A command is two steps: loadTasks, and
\* then everything it does with the tasksData it loaded, saveTasks included.
\* Nothing locks the file between the two.
RaceCommands == {"create", "complete"}

\* const tasksData = loadTasks()
LoadTasks(p) ==
  /\ tasksExists
  /\ proc[p].pc = "idle"
  /\ \E command \in RaceCommands, taskId \in TaskIdArgs :
       proc' = [proc EXCEPT ![p] =
                  [pc |-> "loaded", command |-> command,
                   taskId |-> IF command = "create" THEN Null ELSE taskId,
                   tasksData |-> tasksFile, result |-> "none", newId |-> Null]]
  /\ UNCHANGED <<tasksExists, tasksFile, contextFile, writeOk>>

\* The task is created in the file as it is at the save.
SaveCreated_reload(p) ==
  /\ proc[p].pc = "loaded"
  /\ proc[p].command = "create"
  /\ Len(tasksFile) < MaxTasks
  /\ tasksFile' = saveTasks(tasksFile, createTaskFromChat(tasksFile))
  /\ proc' = [proc EXCEPT ![p].pc = "done", ![p].result = "ok",
                          ![p].newId = getNextTaskId(tasksFile)]
  /\ UNCHANGED <<tasksExists, contextFile, writeOk>>

\* createTaskFromChat from its push to its saveTasks, on the tasksData the
\* process loaded.
SaveCreated(p) ==
  /\ proc[p].pc = "loaded"
  /\ proc[p].command = "create"
  /\ Len(proc[p].tasksData) < MaxTasks
  /\ tasksFile' = saveTasks(tasksFile, createTaskFromChat(proc[p].tasksData))
  /\ proc' = [proc EXCEPT ![p].pc = "done", ![p].result = "ok",
                          ![p].newId = getNextTaskId(proc[p].tasksData)]
  /\ UNCHANGED <<tasksExists, contextFile, writeOk>>

\* The task is completed in the file as it is at the save.
SaveCompleted_reload(p) ==
  /\ proc[p].pc = "loaded"
  /\ proc[p].command = "complete"
  /\ LET r == completeTaskWithContextUpdate(tasksFile, contextFile,
                                           proc[p].taskId, 0) IN
     /\ HistFits(r.context)
     /\ tasksFile' = r.tasks
     /\ contextFile' = r.context
     /\ proc' = [proc EXCEPT ![p].pc = "done", ![p].result = r.result]
  /\ UNCHANGED <<tasksExists, writeOk>>

\* completeTaskWithContextUpdate after its loadTasks, on the tasksData the
\* process loaded; a task that is not found is reported before any write.
SaveCompleted(p) ==
  /\ proc[p].pc = "loaded"
  /\ proc[p].command = "complete"
  /\ LET r == completeTaskWithContextUpdate(proc[p].tasksData, contextFile,
                                           proc[p].taskId, 0) IN
     /\ HistFits(r.context)
     /\ tasksFile' = IF r.result = "fail" THEN tasksFile ELSE r.tasks
     /\ contextFile' = r.context
     /\ proc' = [proc EXCEPT ![p].pc = "done", ![p].result = r.result]
  /\ UNCHANGED <<tasksExists, writeOk>>

RaceInit ==
  /\ tasksExists = TRUE
  /\ proc = [p \in Procs |-> Idle]
  /\ writeOk = [script |-> TRUE, tracker |-> TRUE]
  /\ tasksFile \in TrackerStores
  /\ contextFile = NoContextFile

RaceNext ==
  \E p \in Procs :
    \/ LoadTasks(p)
    \/ SaveCreated(p)
    \/ SaveCompleted(p)

SpecRace == RaceInit /\ [][RaceNext]_vars

(***************************************************************************)
(* Properties.  A command is stated on its operator: at every reachable    *)
(* pair of documents, for every argument, the documents it would leave.    *)
(***************************************************************************)
Slot(T, id) ==
  CHOOSE i \in 1..Len(T) : T[i].id = id /\ \A j \in 1..(i - 1) : T[j].id # id

Known(T, id) == \E i \in 1..Len(T) : T[i].id = id

TaskWithId(T, id) == T[Slot(T, id)]

StatusOf(T, id) == T[Slot(T, id)].status

EverySubtaskDone(task) ==
  \A k \in DOMAIN task.subtasks : task.subtasks[k].status = "done"

HasSubtask(task, sid) ==
  \E k \in DOMAIN task.subtasks : task.subtasks[k].id = sid

InProgress(T) == {i \in 1..Len(T) : T[i].status = "in-progress"}

\* The entries a command appended to the history it found.
NewEntries(C, after) ==
  SubSeq(after.taskHistory, Len(C.taskHistory) + 1, Len(after.taskHistory))

Entry(taskId, action) == [taskId |-> taskId, action |-> action]

CompleteEntries(entries, taskId) ==
  SelectSeq(entries, LAMBDA e : e = Entry(taskId, "complete"))

\* The three scripts that complete a subtask, and the three that complete a task.
CompleteOutcomes(T, C, id, sub) ==
  { Outcome(completeTaskWithContextUpdate(T, C, id, sub).tasks,
            completeTaskWithContextUpdate(T, C, id, sub).context,
            completeTaskWithContextUpdate(T, C, id, sub).result),
    completeTask(T, C, id, sub),
    chat_completeTask(T, C, id, sub) }

\* The start flows that take a task id, and the chat "next task".
StartOutcomes(T, C) ==
  {startNextTask(T, C, id) : id \in {Null} \cup TaskIdArgs}
    \cup {startTaskExecution(T, C, id) : id \in {Null} \cup TaskIdArgs}
    \cup {chat_getNextTask(T, C)}

\* C1: rollup. Completing a subtask of a task, by any of the complete
\* scripts, leaves the task done whenever it leaves all of the task's
\* subtasks done; and the completed subtask is done and no subtask of the
\* task leaves done, so that completing each subtask in turn, in any order,
\* ends with the task done.
C1_Rollup ==
  \A id \in TaskIdArgs, sub \in 1..(MaxSubs + 1) :
    (Known(tasksFile, id) /\ HasSubtask(TaskWithId(tasksFile, id), SubId(id, sub))) =>
      \A r \in CompleteOutcomes(tasksFile, contextFile, id, sub) :
        LET before == TaskWithId(tasksFile, id)
            after == TaskWithId(r.tasks, id)
        IN /\ Len(after.subtasks) = Len(before.subtasks)
           /\ \A k \in DOMAIN before.subtasks :
                /\ after.subtasks[k].id = before.subtasks[k].id
                /\ (before.subtasks[k].status = "done"
                      \/ before.subtasks[k].id = SubId(id, sub))
                     => after.subtasks[k].status = "done"
           /\ EverySubtaskDone(after) => after.status = "done"

\* C1 witness: a task with two subtasks, both completed one after the other
\* by the complete script (one entry for the first, two for the second),
\* stands done.
C1_Witness ==
  \E i \in 1..Len(tasksFile) :
    /\ Len(tasksFile[i].subtasks) = 2
    /\ EverySubtaskDone(tasksFile[i])
    /\ tasksFile[i].status = "done"
    /\ contextFile.taskHistory = [n \in 1..3 |-> Entry(tasksFile[i].id, "update")]

C3_DoneTaskHasDoneSubtasks ==
  \A i \in 1..Len(tasksFile) :
    tasksFile[i].status = "done" => EverySubtaskDone(tasksFile[i])

\* C4: completing a started (in-progress) task with the complete script
\* appends exactly one entry with action complete for that task and leaves
\* activeTask null.
C4_OneCompleteEntry ==
  \A id \in TaskIdArgs :
    (Known(tasksFile, id) /\ StatusOf(tasksFile, id) = "in-progress") =>
      LET r == completeTaskWithContextUpdate(tasksFile, contextFile, id, 0) IN
      /\ Len(CompleteEntries(NewEntries(contextFile, r.context), id)) = 1
      /\ r.context.activeTask = Null

\* C5: a successful subtask completion by the complete script appends one
\* update entry for the parent, followed by one complete entry for the parent
\* exactly when the completion leaves all subtasks done.
C5_SubtaskEntries ==
  \A id \in TaskIdArgs, sub \in 1..(MaxSubs + 1) :
    LET r == completeTaskWithContextUpdate(tasksFile, contextFile, id, sub) IN
    r.result = "ok" =>
      NewEntries(contextFile, r.context) =
        IF EverySubtaskDone(TaskWithId(r.tasks, id))
        THEN <<Entry(id, "update"), Entry(id, "complete")>>
        ELSE <<Entry(id, "update")>>

\* C6: every successful start of a pending task, by startNextTask, by
\* startTaskExecution or by the chat "next task", appends a start entry for
\* that task and leaves activeTask equal to its id.
C6_StartRecorded ==
  \A r \in StartOutcomes(tasksFile, contextFile) :
    r.result = "ok" =>
      \A i \in 1..Len(tasksFile) :
        (tasksFile[i].status = "pending" /\ r.tasks[i].status = "in-progress") =>
          /\ NewEntries(contextFile, r.context) = <<Entry(tasksFile[i].id, "start")>>
          /\ r.context.activeTask = tasksFile[i].id

\* C7: startNextTask, with or without a task id, fails and leaves both
\* documents as they were while some task is in-progress; it changes
\* tasks.json only when no task is in-progress, and then it stores a task
\* that was pending as in-progress and every entry it changed is
\* in-progress.
C7_AlreadyActive ==
  \A id \in {Null} \cup TaskIdArgs :
    LET r == startNextTask(tasksFile, contextFile, id) IN
    /\ InProgress(tasksFile) # {} =>
         (r.result = "fail" /\ r.tasks = tasksFile /\ r.context = contextFile)
    /\ r.tasks # tasksFile =>
         /\ InProgress(tasksFile) = {}
         /\ Len(r.tasks) = Len(tasksFile)
         /\ \E i, j \in 1..Len(tasksFile) :
              /\ tasksFile[i].status = "pending"
              /\ r.tasks[j] = [tasksFile[i] EXCEPT !.status = "in-progress"]
         /\ \A i \in 1..Len(tasksFile) :
              r.tasks[i] = tasksFile[i] \/ r.tasks[i].status = "in-progress"

\* C7 witness: one task is in-progress and another is pending, and
\* startNextTask naming the pending task is refused.
C7_Witness ==
  /\ Len(tasksFile) = 2
  /\ tasksFile[1].status = "in-progress"
  /\ tasksFile[2].status = "pending"
  /\ startNextTask(tasksFile, contextFile, 2).result = "fail"
  /\ startNextTask(tasksFile, contextFile, Null).result = "fail"

\* C8: at most one task is in-progress in every store reached from an empty
\* project by commands run one at a time.
C8_SingleActive ==
  Cardinality(InProgress(tasksFile)) <= 1

\* C9: a start request naming a task that is in-progress, done or deferred
\* fails and leaves tasks.json as it was.
C9_StartOnlyPending ==
  \A id \in TaskIdArgs :
    (Known(tasksFile, id) /\ StatusOf(tasksFile, id) \in {"in-progress", "done", "deferred"}) =>
      \A r \in {startNextTask(tasksFile, contextFile, id),
                startTaskExecution(tasksFile, contextFile, id)} :
        r.result = "fail" /\ r.tasks = tasksFile

\* C10: done is terminal: a task that is done is done after every step.
C10_DoneTerminal ==
  [][\A i \in 1..Len(tasksFile) :
       tasksFile[i].status = "done" =>
         (i <= Len(tasksFile') /\ tasksFile'[i].status = "done")]_vars

\* The task the scheduler contract names for a store: none when nothing is
\* pending, else the pending task of smallest priority, the earliest in the
\* list among those.
IsNext(T, t) ==
  IF \A i \in 1..Len(T) : T[i].status # "pending" THEN t = NoTask
  ELSE \E i \in 1..Len(T) :
         /\ t = T[i]
         /\ T[i].status = "pending"
         /\ \A j \in 1..Len(T) :
              T[j].status = "pending" =>
                \/ T[i].priority < T[j].priority
                \/ T[i].priority = T[j].priority /\ i <= j

\* C11: the tracker's getNextTask and the getNextTask that startNextTask
\* uses both return the pending task of numerically smallest priority,
\* earliest in list order among equals, and none when nothing is pending.
C11_GetNext ==
  /\ IsNext(tasksFile, tracker_getNextTask(tasksFile))
  /\ IsNext(tasksFile, next_getNextTask(tasksFile))

\* C12: the next command is a read: the next script and the chat "next
\* task" leave tasks.json and context.json as they found them.
C12_NextIsRead ==
  \A r \in {nextjs_getNextTask(tasksFile, contextFile),
            chat_getNextTask(tasksFile, contextFile)} :
    r.tasks = tasksFile /\ r.context = contextFile

\* C13: getNextTaskId is 1 for an empty list and otherwise one more than
\* some id of the list and greater than every id of the list.
C13_NextId ==
  LET n == getNextTaskId(tasksFile) IN
  /\ tasksFile = <<>> => n = 1
  /\ tasksFile # <<>> =>
       /\ \E i \in 1..Len(tasksFile) : n = tasksFile[i].id + 1
       /\ \A i \in 1..Len(tasksFile) : n > tasksFile[i].id

\* C13 witness: two tasks created one after the other hold ids 1 and 2, the
\* second id computed from a list holding the first, and the next id is 3.
C13_Witness ==
  /\ Len(tasksFile) = 2
  /\ tasksFile[1].id = 1
  /\ tasksFile[2].id = getNextTaskId(<<tasksFile[1]>>)
  /\ tasksFile[2].id = 2
  /\ getNextTaskId(tasksFile) = 3

\* C14: no two tasks of tasks.json share an id.
C14_UniqueIds ==
  \A i, j \in 1..Len(tasksFile) :
    tasksFile[i].id = tasksFile[j].id => i = j

\* C15: completing a task twice with the complete script (or the chat
\* command) leaves tasks.json after the second call as after the first, the
\* task done with all its subtasks done, and each call appends exactly one
\* history entry, for that task.
C15_CompleteTwice ==
  \A id \in TaskIdArgs :
    Known(tasksFile, id) =>
      LET a1 == completeTaskWithContextUpdate(tasksFile, contextFile, id, 0)
          a2 == completeTaskWithContextUpdate(a1.tasks, a1.context, id, 0)
          b1 == chat_completeTask(tasksFile, contextFile, id, 0)
          b2 == chat_completeTask(b1.tasks, b1.context, id, 0)
          Twice(r1, r2) ==
            /\ r1.result = "ok" /\ r2.result = "ok"
            /\ TaskWithId(r1.tasks, id).status = "done"
            /\ EverySubtaskDone(TaskWithId(r1.tasks, id))
            /\ r2.tasks = r1.tasks
            /\ Len(NewEntries(contextFile, r1.context)) = 1
            /\ Len(NewEntries(r1.context, r2.context)) = 1
            /\ r1.context.taskHistory = Append(contextFile.taskHistory,
                                               r1.context.taskHistory[Len(r1.context.taskHistory)])
            /\ r2.context.taskHistory = Append(r1.context.taskHistory,
                                               r2.context.taskHistory[Len(r2.context.taskHistory)])
            /\ r1.context.taskHistory[Len(r1.context.taskHistory)].taskId = id
            /\ r2.context.taskHistory[Len(r2.context.taskHistory)].taskId = id
      IN Twice(a1, a2) /\ Twice(b1, b2)

\* C15 witness: a task with two subtasks was completed twice; it is done
\* with both subtasks done and the history holds the two calls' entries.
C15_Witness ==
  \E i \in 1..Len(tasksFile) :
    /\ Len(tasksFile[i].subtasks) = 2
    /\ EverySubtaskDone(tasksFile[i])
    /\ tasksFile[i].status = "done"
    /\ Len(contextFile.taskHistory) = 2
    /\ \A n \in 1..2 : contextFile.taskHistory[n].taskId = tasksFile[i].id
    /\ completeTaskWithContextUpdate(tasksFile, contextFile, tasksFile[i].id, 0).tasks
         = tasksFile

\* C16: a complete request naming a task or a subtask that is not in the
\* store, and a start request naming a task that is not in the store, fail,
\* leave tasks.json as it was and leave the history as it was.
C16_NotFound ==
  \A id \in TaskIdArgs, sub \in SubArgs :
    LET NoEffect(r) ==
          /\ r.result = "fail"
          /\ r.tasks = tasksFile
          /\ r.context.taskHistory = contextFile.taskHistory
    IN
    /\ (~Known(tasksFile, id)
          \/ (sub # 0 /\ ~HasSubtask(TaskWithId(tasksFile, id), SubId(id, sub)))) =>
         \A r \in CompleteOutcomes(tasksFile, contextFile, id, sub) : NoEffect(r)
    /\ ~Known(tasksFile, id) =>
         /\ NoEffect(startTaskExecution(tasksFile, contextFile, id))
         /\ NoEffect(startNextTask(tasksFile, contextFile, id))
         /\ NoEffect(context_completeTask(tasksFile, contextFile, id, TRUE))

\* C16 witness: a store of one task with one pending subtask and a history,
\* on which completing task 2, completing subtask 1.2 and starting task 2
\* are refused.
C16_Witness ==
  /\ Len(tasksFile) = 1
  /\ tasksFile[1].id = 1
  /\ Len(tasksFile[1].subtasks) = 1
  /\ tasksFile[1].subtasks[1].status = "pending"
  /\ contextFile.taskHistory # <<>>
  /\ completeTaskWithContextUpdate(tasksFile, contextFile, 2, 0).result = "fail"
  /\ completeTaskWithContextUpdate(tasksFile, contextFile, 1, 2).result = "fail"
  /\ startTaskExecution(tasksFile, contextFile, 2).result = "fail"

IsPrefix(s, t) ==
  Len(s) <= Len(t) /\ \A n \in 1..Len(s) : s[n] = t[n]

\* C17: addHistoryEntry, when it succeeds, adds exactly one entry, the one
\* asked for, at the end of taskHistory, and leaves activeTask equal to the
\* task id for start, null for complete and as it was for update; when
\* context.json cannot be loaded it fails and leaves the file as it was; a
\* call that fails appends nothing.
C17_AddHistoryEntry ==
  \A taskId \in TaskIdArgs, action \in HistoryActions :
    LET r == addHistoryEntry(tasksFile, contextFile, taskId, action) IN
    /\ r.ok =>
         /\ r.context.taskHistory =
              Append(contextFile.taskHistory, Entry(taskId, action))
         /\ r.context.activeTask =
              CASE action = "start" -> taskId
                [] action = "complete" -> Null
                [] action = "update" -> contextFile.activeTask
    /\ (contextFile.exists /\ ~contextFile.readable) =>
         (~r.ok /\ r.context = contextFile)
    /\ ~r.ok => r.context.taskHistory = contextFile.taskHistory
    /\ (Known(tasksFile, taskId) /\ ~(contextFile.exists /\ ~contextFile.readable)) => r.ok

\* C17 witness: task 1 was recorded as started and then updated: two
\* entries, and activeTask still names task 1.
C17_Witness ==
  /\ contextFile.taskHistory = <<Entry(1, "start"), Entry(1, "update")>>
  /\ contextFile.activeTask = 1
  /\ addHistoryEntry(tasksFile, contextFile, 1, "complete").context.activeTask = Null

\* C18: in every step the taskHistory before the step is a prefix of the
\* taskHistory after it.
C18_AppendOnly ==
  [][IsPrefix(contextFile.taskHistory, contextFile'.taskHistory)]_vars

\* C18 witness: a history of three entries, for two tasks and of two
\* actions, built by three appends.
C18_Witness ==
  /\ Len(contextFile.taskHistory) = 3
  /\ contextFile.taskHistory[1].taskId # contextFile.taskHistory[3].taskId
  /\ contextFile.taskHistory[1].action # contextFile.taskHistory[2].action

\* C19: getTaskHistory returns the entries whose taskId is the id asked
\* for, all of them, in the order of the history, and returns the same
\* sequence when called again.
C19_HistoryFor ==
  \A taskId \in TaskIdArgs :
    LET r1 == getTaskHistory(contextFile, taskId)
        r2 == getTaskHistory(r1.context, taskId)
        full == contextFile.taskHistory
        at == {n \in 1..Len(full) : full[n].taskId = taskId}
    IN r1.ok =>
         /\ Len(r1.history) = Cardinality(at)
         /\ \A n \in at : r1.history[Cardinality({m \in at : m <= n})] = full[n]
         /\ r2.ok /\ r2.history = r1.history

\* C19 witness: a history in which the entries of task 1 stand around an
\* entry of task 2; the history of task 1 is its two entries in order.
C19_Witness ==
  /\ contextFile.taskHistory =
       <<Entry(1, "start"), Entry(2, "update"), Entry(1, "complete")>>
  /\ getTaskHistory(contextFile, 1).history =
       <<Entry(1, "start"), Entry(1, "complete")>>

\* C20: getProjectSummary changes neither tasks.json nor context.json,
\* whether or not context.json exists.
C20_SummaryIsRead ==
  getProjectSummary(tasksFile, contextFile).context = contextFile

\* C21: the step that initialises a directory for the first time leaves
\* tasks.json with an empty task list and context.json existing with an
\* empty taskHistory and no active task.
C21_InitCreatesBoth ==
  [][(~tasksExists /\ tasksExists') =>
       /\ tasksFile' = <<>>
       /\ contextFile'.exists
       /\ contextFile'.taskHistory = <<>>
       /\ contextFile'.activeTask = Null]_vars

\* C22: init on a directory that holds a tasks.json leaves the file, and
\* every task in it, as it was.
C22_InitKeepsTasks ==
  tasksExists =>
    createTasksFile(tasksExists, tasksFile) = [exists |-> TRUE, tasks |-> tasksFile]

\* C22 witness: a store of two tasks, one of them done, on which init is
\* run again and keeps both.
C22_Witness ==
  /\ tasksExists
  /\ Len(tasksFile) = 2
  /\ tasksFile[1].status = "done"
  /\ Len(createTasksFile(tasksExists, tasksFile).tasks) = 2

\* C23: two processes that ran the creation command on the same loaded
\* tasksData were both given the same new id, the one after the largest id
\* they loaded (and there is an interleaving in which they do: the witness).
C23_DuplicateId ==
  \A p, q \in Procs :
    ( /\ p # q
      /\ proc[p].pc = "done" /\ proc[q].pc = "done"
      /\ proc[p].command = "create" /\ proc[q].command = "create"
      /\ proc[p].tasksData = proc[q].tasksData )
    => /\ proc[p].result = "ok" /\ proc[q].result = "ok"
       /\ proc[p].newId = proc[q].newId
       /\ \A i \in 1..Len(proc[p].tasksData) : proc[p].tasksData[i].id < proc[p].newId

\* C23 witness: both processes loaded the store holding task 1 before
\* either saved, and both report the new task 2.
C23_Witness ==
  /\ proc[1].pc = "done" /\ proc[2].pc = "done"
  /\ proc[1].command = "create" /\ proc[2].command = "create"
  /\ Len(proc[1].tasksData) = 1 /\ proc[1].tasksData = proc[2].tasksData
  /\ proc[1].result = "ok" /\ proc[2].result = "ok"
  /\ proc[1].newId = 2 /\ proc[2].newId = 2

\* C24: two processes that completed two different tasks, neither done in
\* the tasksData both loaded, both report success and tasks.json holds
\* exactly one of the two as done (and there is such an interleaving: the
\* witness).
C24_LostUpdate ==
  \A p, q \in Procs :
    ( /\ p # q
      /\ proc[p].pc = "done" /\ proc[q].pc = "done"
      /\ proc[p].command = "complete" /\ proc[q].command = "complete"
      /\ proc[p].tasksData = proc[q].tasksData
      /\ proc[p].taskId # proc[q].taskId
      /\ Known(proc[p].tasksData, proc[p].taskId)
      /\ Known(proc[p].tasksData, proc[q].taskId)
      /\ StatusOf(proc[p].tasksData, proc[p].taskId) # "done"
      /\ StatusOf(proc[p].tasksData, proc[q].taskId) # "done" )
    => /\ proc[p].result = "ok" /\ proc[q].result = "ok"
       /\ (StatusOf(tasksFile, proc[p].taskId) = "done")
            # (StatusOf(tasksFile, proc[q].taskId) = "done")

\* C24 witness: process 1 completed task 1 and process 2 task 2, both with
\* success, and tasks.json has task 1 pending and task 2 done.
C24_Witness ==
  /\ proc[1].pc = "done" /\ proc[2].pc = "done"
  /\ proc[1].command = "complete" /\ proc[2].command = "complete"
  /\ proc[1].taskId = 1 /\ proc[2].taskId = 2
  /\ proc[1].result = "ok" /\ proc[2].result = "ok"
  /\ Len(tasksFile) = 2
  /\ tasksFile[1].status = "pending"
  /\ tasksFile[2].status = "done"

\* The position of a subtask in its task.
SubSlot(task, sid) ==
  CHOOSE k \in DOMAIN task.subtasks : task.subtasks[k].id = sid

\* C25: completing a subtask whose parent has another subtask that is not
\* done, by any of the complete scripts, sets that subtask to done and
\* leaves the parent's status, its other subtasks and every other task as
\* they were.
C25_SubtaskOnly ==
  \A id \in TaskIdArgs, sub \in 1..(MaxSubs + 1) :
    ( /\ Known(tasksFile, id)
      /\ HasSubtask(TaskWithId(tasksFile, id), SubId(id, sub))
      /\ \E k \in DOMAIN TaskWithId(tasksFile, id).subtasks :
           /\ TaskWithId(tasksFile, id).subtasks[k].id # SubId(id, sub)
           /\ TaskWithId(tasksFile, id).subtasks[k].status # "done" )
    => \A o \in CompleteOutcomes(tasksFile, contextFile, id, sub) :
         o.tasks =
           [tasksFile EXCEPT
              ![Slot(tasksFile, id)].subtasks[SubSlot(TaskWithId(tasksFile, id),
                                                      SubId(id, sub))].status = "done"]

\* C25 witness: task 1 is pending with two pending subtasks; completing
\* 1.1 leaves it pending with 1.1 done and 1.2 pending.
C25_Witness ==
  /\ Len(tasksFile) >= 1
  /\ tasksFile[1].id = 1
  /\ tasksFile[1].status = "pending"
  /\ Len(tasksFile[1].subtasks) = 2
  /\ tasksFile[1].subtasks[1].status = "pending"
  /\ tasksFile[1].subtasks[2].status = "pending"
  /\ LET r == completeTaskWithContextUpdate(tasksFile, contextFile, 1, 1) IN
     /\ r.result = "ok"
     /\ r.tasks[1].status = "pending"
     /\ r.tasks[1].subtasks[1].status = "done"
     /\ r.tasks[1].subtasks[2].status = "pending"

\* C26: chat "continue", with a task in-progress and a task pending, leaves
\* the task that was current done and exactly one task in-progress, a task
\* that was pending and that no pending task preceded in priority.
C26_Continue ==
  (InProgress(tasksFile) # {} /\ \E i \in 1..Len(tasksFile) : tasksFile[i].status = "pending")
  => LET r == chat_continueCopilotIteration(tasksFile, contextFile)
         current == CHOOSE i \in InProgress(tasksFile) :
                      \A j \in InProgress(tasksFile) : i <= j
     IN /\ r.tasks[current].status = "done"
        /\ Cardinality(InProgress(r.tasks)) = 1
        /\ \A i \in InProgress(r.tasks) :
             /\ tasksFile[i].status = "pending"
             /\ \A j \in 1..Len(tasksFile) :
                  tasksFile[j].status = "pending" =>
                    tasksFile[i].priority <= tasksFile[j].priority

\* C27: every task in tasks.json has a priority of 1, 2 or 3, and so has
\* every priority a creation command computes: from any answer at the
\* priority prompt, from any priority tag, and at any position of a
\* paragraph in a plan, with or without a keyword.
C27_PriorityRange ==
  /\ \A i \in 1..Len(tasksFile) : tasksFile[i].priority \in {1, 2, 3}
  /\ \A answer \in PriorityAnswers : clampPriority(answer) \in {1, 2, 3}
  /\ \A tag \in PriorityTags : tagPriority(tag) \in {1, 2, 3}
  /\ \A i \in 0..MaxParagraphs, keyword \in PlanKeywords :
       planPriority(i, keyword) \in {1, 2, 3}

\* C27 witness: a plan of seven paragraphs was stored, the first with
\* priority 1, the fourth with 2 and the seventh with 3, where the position
\* alone gives 3; and the prompt answers 4, -1 and 0 give 3, 1 and 2.
C27_Witness ==
  /\ Len(tasksFile) = MaxParagraphs
  /\ tasksFile[1].priority = 1
  /\ tasksFile[4].priority = 2
  /\ tasksFile[7].priority = 3
  /\ planPriority(6, "none") = 3
  /\ clampPriority(4) = 3 /\ clampPriority(-1) = 1 /\ clampPriority(0) = 2

\* C28: when activeTask names a task, that task exists and is in-progress;
\* and when a start command succeeds and leaves exactly one task
\* in-progress, it leaves activeTask naming that task.
C28_ActiveTaskAgrees ==
  /\ contextFile.activeTask # Null =>
       /\ Known(tasksFile, contextFile.activeTask)
       /\ StatusOf(tasksFile, contextFile.activeTask) = "in-progress"
  /\ \A o \in StartOutcomes(tasksFile, contextFile) :
       (o.result = "ok" /\ Cardinality(InProgress(o.tasks)) = 1) =>
         \A i \in InProgress(o.tasks) : o.context.activeTask = o.tasks[i].id

\* The outcomes of the commands that complete or start the task or subtask
\* they are given, and of those that start the next task.
StatusOutcomes(T, C) ==
  StartOutcomes(T, C)
    \cup UNION {CompleteOutcomes(T, C, id, sub) : id \in TaskIdArgs, sub \in SubArgs}
    \cup {Outcome(completeTaskInteractive(T, C, id, sub, yes).tasks,
                  completeTaskInteractive(T, C, id, sub, yes).context,
                  completeTaskInteractive(T, C, id, sub, yes).result) :
             id \in TaskIdArgs, sub \in SubArgs, yes \in BOOLEAN}
    \cup {context_completeTask(T, C, id, TRUE) : id \in TaskIdArgs}

\* The outcomes of the commands of complete.js and copilot.js, which append
\* to the history only under a successful saveTasks.
SavingOutcomes(T, C) ==
  {startNextTask(T, C, id) : id \in {Null} \cup TaskIdArgs}
    \cup {startTaskExecution(T, C, id) : id \in {Null} \cup TaskIdArgs}
    \cup {Outcome(completeTaskWithContextUpdate(T, C, id, sub).tasks,
                  completeTaskWithContextUpdate(T, C, id, sub).context,
                  completeTaskWithContextUpdate(T, C, id, sub).result) :
             id \in TaskIdArgs, sub \in SubArgs}

\* C29: a history entry recording a status change is appended only after the
\* write of tasks.json carrying that change has succeeded. A new "start" entry
\* names a task that tasks.json holds as in-progress and a new "complete"
\* entry one it holds as done; no such entry is appended when the tracker's
\* write fails, none at all by complete.js and copilot.js when their
\* saveTasks fails; and when no write succeeds the command leaves tasks.json
\* and context.json as they were.
C29_EntryAfterWrite ==
  /\ \A o \in StatusOutcomes(tasksFile, contextFile) :
       LET new == NewEntries(contextFile, o.context) IN
       /\ \A n \in 1..Len(new) :
            /\ new[n].action = "start" =>
                 /\ Known(o.tasks, new[n].taskId)
                 /\ StatusOf(o.tasks, new[n].taskId) = "in-progress"
            /\ new[n].action = "complete" =>
                 /\ Known(o.tasks, new[n].taskId)
                 /\ StatusOf(o.tasks, new[n].taskId) = "done"
            /\ new[n].action \in {"start", "complete"} => writeOk.tracker
       /\ (~writeOk.script /\ ~writeOk.tracker) =>
            /\ o.tasks = tasksFile
            /\ o.context = contextFile
  /\ \A o \in SavingOutcomes(tasksFile, contextFile) :
       ~writeOk.script => o.tasks = tasksFile /\ o.context = contextFile

\* C29 witness: the scripts can write tasks.json and the tracker cannot;
\* starting a pending task puts it in-progress in tasks.json, and appends
\* no entry and leaves activeTask alone.
C29_Witness ==
  /\ writeOk.script /\ ~writeOk.tracker
  /\ \E i \in 1..Len(tasksFile) :
       LET o == startTaskExecution(tasksFile, contextFile, tasksFile[i].id) IN
       /\ tasksFile[i].status = "pending"
       /\ StatusOf(o.tasks, tasksFile[i].id) = "in-progress"
       /\ NewEntries(contextFile, o.context) = <<>>
       /\ o.context.activeTask = contextFile.activeTask

\* The command appended a history entry for task id.
EntryFor(o, id) ==
  \E n \in 1..Len(NewEntries(contextFile, o.context)) :
    NewEntries(contextFile, o.context)[n].taskId = id

\* C30: whenever a complete or start command of complete.js, copilot.js or
\* the chat changes the status of a task or subtask in tasks.json, it has
\* appended a history entry for that task when it ends.
C30_ChangeHasEntry ==
  /\ \A id \in TaskIdArgs, sub \in SubArgs :
       /\ completeTaskWithContextUpdate(tasksFile, contextFile, id, sub).tasks # tasksFile =>
            EntryFor(completeTaskWithContextUpdate(tasksFile, contextFile, id, sub), id)
       /\ chat_completeTask(tasksFile, contextFile, id, sub).tasks # tasksFile =>
            EntryFor(chat_completeTask(tasksFile, contextFile, id, sub), id)
  /\ \A o \in StartOutcomes(tasksFile, contextFile) :
       o.tasks # tasksFile =>
         \E i \in InProgress(o.tasks) : EntryFor(o, o.tasks[i].id)
====
